---- MODULE Spec2Model ----
(***************************************************************************)
(* Model of the roulette room server, src/server/index.js: the room       *)
(* registry, the room state machine (waiting / betting / spinning), the   *)
(* periodic tick, the deferred resolution, bet placement and settlement,  *)
(* and the WebSocket message handlers (join, place_bet, close).           *)
(*                                                                         *)
(* Every handler of the server runs to completion on the single event     *)
(* loop, so each handler is one action.  Values that arrive in a JSON     *)
(* message are modelled as tagged JavaScript values, and the arithmetic   *)
(* and comparisons applied to them follow JavaScript (NaN included).      *)
(***************************************************************************)
EXTENDS Integers, Sequences, FiniteSets, TLC

VARIABLES
    now,        \* Date.now(), in ms
    conns,      \* the accepted WebSocket connections, in order of acceptance
    rooms,      \* the registry: room id -> room object
    detached,   \* room objects deleted from the registry that a pending
                \* setTimeout callback still references
    last,       \* what the last handler sent and dropped (observation only)
    probe,      \* inputs and result of one evaluation of a single bet
    alive       \* the server process runs (no uncaught exception so far)

vars == <<now, conns, rooms, detached, last, probe, alive>>

-----------------------------------------------------------------------------
(* Program constants                                                       *)

MAX_PLAYERS == 5
START_CHIPS == 1000
BETTING_WINDOW_MS == 30000
SPIN_DELAY_MS == 1600

REDS == {1,3,5,7,9,12,14,16,18,19,21,23,25,27,30,32,34,36}

-----------------------------------------------------------------------------
(* Bounds of the model                                                     *)

\* Number of clock advances explored; one advance is one betting window.
MaxClockSteps == 2
\* Ledger entries one room may hold at a time.
MaxBets == 2
\* Connections accepted in the game specification.
GameConns == 2
\* Clock advances and ledger entries in the capacity specification.
CapClockSteps == 2
CapBets == 1

TimeStep == BETTING_WINDOW_MS

-----------------------------------------------------------------------------
(* JavaScript values                                                       *)

Num(n)  == [k |-> "num",   n |-> n, s |-> ""]   \* the integer n
Half(n) == [k |-> "half",  n |-> n, s |-> ""]   \* the number n + 0.5
Str(s)  == [k |-> "str",   n |-> 0, s |-> s]    \* a string
Undef   == [k |-> "undef", n |-> 0, s |-> ""]   \* undefined (field absent)
NaN     == [k |-> "nan",   n |-> 0, s |-> ""]

IsNum(v) == v.k = "num"

\* x || 0
Truthy(v) ==
    CASE v.k = "num"  -> v.n # 0
      [] v.k = "half" -> TRUE
      [] v.k = "str"  -> v.s # ""
      [] OTHER        -> FALSE
OrZero(v) == IF Truthy(v) THEN v ELSE Num(0)

\* Math.floor(x): ToNumber, then floor.  The strings of the input sets are
\* not numeric literals, so ToNumber gives NaN for them.
MathFloor(v) ==
    CASE v.k = "num"  -> v
      [] v.k = "half" -> Num(v.n)
      [] OTHER        -> NaN

\* a < b and a <= b: false as soon as one side is NaN
JsLt(a, b) == IsNum(a) /\ IsNum(b) /\ a.n < b.n
JsLe(a, b) == IsNum(a) /\ IsNum(b) /\ a.n <= b.n
JsAdd(a, b) == IF IsNum(a) /\ IsNum(b) THEN Num(a.n + b.n) ELSE NaN
JsSub(a, b) == IF IsNum(a) /\ IsNum(b) THEN Num(a.n - b.n) ELSE NaN
JsMul(a, m) == IF IsNum(a) THEN Num(a.n * m) ELSE NaN

\* value === n and value === 'text'
EqInt(v, n) == v.k = "num" /\ v.n = n
EqStr(v, s) == v.k = "str" /\ v.s = s

-----------------------------------------------------------------------------
(* Roulette helpers                                                        *)

isRed(n)   == n \in REDS
isBlack(n) == n # 0 /\ n \notin REDS
isEven_zero(n) == n % 2 = 0
isEven(n)  == n # 0 /\ n % 2 = 0
isOdd(n)   == n % 2 = 1
inLow(n)   == n >= 1 /\ n <= 18
inHigh(n)  == n >= 19 /\ n <= 36
inDozen(n, d) ==
    CASE EqInt(d, 1) -> n >= 1 /\ n <= 12
      [] EqInt(d, 2) -> n >= 13 /\ n <= 24
      [] EqInt(d, 3) -> n >= 25 /\ n <= 36
      [] OTHER       -> FALSE

\* spinWheel(): Math.floor(Math.random() * 37)
WheelNumbers == 0..36

ResultColor(n) == IF n = 0 THEN "green" ELSE IF isRed(n) THEN "red" ELSE "black"

-----------------------------------------------------------------------------
(* Room objects                                                            *)

Put(f, key, v) == (key :> v) @@ f
Drop(f, key)   == [x \in DOMAIN f \ {key} |-> f[x]]
EmptyMap == <<>>

\* getRoom: the object created for an id the registry does not hold
NewRoom(id) ==
    [ id          |-> id,
      players     |-> EmptyMap,   \* ws -> [id, chips]
      playerIndex |-> {},         \* the player ids indexed
      round       |-> 0,
      phase       |-> "waiting",
      bets        |-> EmptyMap,   \* player id -> sequence of ledger entries
      timerEnd    |-> 0,
      lastResult  |-> <<>>,       \* <<>> is null
      history     |-> <<>>,
      tick        |-> "null",     \* null | active | cleared (a dead handle)
      intervals   |-> 0,          \* live setInterval timers whose callback holds the room
      timeouts    |-> <<>> ]      \* due times of the scheduled resolveRound calls

getRoom_fresh(id) == NewRoom(id)
getRoom(id) == IF id \in DOMAIN rooms THEN rooms[id] ELSE NewRoom(id)

RosterSize(room) == Cardinality(DOMAIN room.players)

\* the capacity test of the join handler
RoomFull_gt(room) == RosterSize(room) > MAX_PLAYERS
RoomFull(room) == RosterSize(room) >= MAX_PLAYERS

\* if (room.tick) clearInterval(room.tick), the field itself is left as it is
ClearTick_forgotten(room) == room
ClearTick(room) ==
    [room EXCEPT !.intervals = IF room.tick = "active" THEN @ - 1 ELSE @,
                 !.tick = IF @ = "null" THEN "null" ELSE "cleared"]

\* clearInterval(room.tick); room.tick = null, in the interval's own callback
StopTick_keeps_ticking(room) == room
StopTick(room) == [ClearTick(room) EXCEPT !.tick = "null"]

\* [...room.players.values()].find(pp => pp.id === playerId)
HasPlayer(room, pid) == \E ws \in DOMAIN room.players : room.players[ws].id = pid
PlayerWs(room, pid) == CHOOSE ws \in DOMAIN room.players : room.players[ws].id = pid

\* room.bets.get(pid) || []
BetsOf(room, pid) == IF pid \in DOMAIN room.bets THEN room.bets[pid] ELSE <<>>

\* the number of entries of room.bets, over all its player ids
RECURSIVE LedgerCount(_, _)
LedgerCount(bets, keys) ==
    IF keys = {} THEN 0
    ELSE LET key == CHOOSE x \in keys : TRUE
         IN Len(bets[key]) + LedgerCount(bets, keys \ {key})
LedgerSize(room) == LedgerCount(room.bets, DOMAIN room.bets)

\* broadcast: one message to every roster connection that is OPEN
Msg(type, room) ==
    [ type |-> type, room |-> room.id,
      to   |-> {ws \in DOMAIN room.players : conns[ws].state = "open"} ]

\* aggregatePublicBets: total stake per spot over the current-round entries
SpotKey(b) ==
    [ type |-> b.type, value |-> b.value ]
RECURSIVE SumAmounts(_)
SumAmounts(list) ==
    IF list = <<>> THEN Num(0) ELSE JsAdd(Head(list).amount, SumAmounts(Tail(list)))
RECURSIVE ConcatAll(_, _)
ConcatAll(f, keys) ==
    IF keys = {} THEN <<>>
    ELSE LET key == CHOOSE x \in keys : TRUE
         IN f[key] \o ConcatAll(f, keys \ {key})
CurrentEntries(room) ==
    SelectSeq(ConcatAll(room.bets, DOMAIN room.bets), LAMBDA b : b.round = room.round)
aggregatePublicBets(room) ==
    LET cur == CurrentEntries(room)
        spots == {SpotKey(cur[i]) : i \in DOMAIN cur}
    IN [sp \in spots |-> SumAmounts(SelectSeq(cur, LAMBDA b : SpotKey(b) = sp))]

-----------------------------------------------------------------------------
(* Round lifecycle                                                         *)

\* scheduleTicks: the previous interval, if any, is cleared and a new one set
scheduleTicks(room) ==
    [room EXCEPT !.intervals = (IF room.tick = "active" THEN @ - 1 ELSE @) + 1,
                 !.tick = "active"]

\* startBetting's ledger reset: an empty list for every indexed player id
ResetBets_kept(room) == room.bets
ResetBets(room) ==
    [pid \in DOMAIN room.bets \cup room.playerIndex |->
        IF pid \in room.playerIndex THEN <<>> ELSE room.bets[pid]]

startBetting_no_window(room) ==
    LET r1 == [room EXCEPT !.phase = "betting",
                           !.round = @ + 1,
                           !.timerEnd = now,
                           !.bets = ResetBets(room)]
        r2 == scheduleTicks(r1)
    IN [room |-> r2, out |-> <<Msg("room_update", r2)>>]
startBetting_same_round(room) ==
    LET r1 == [room EXCEPT !.phase = "betting",
                           !.timerEnd = now + BETTING_WINDOW_MS,
                           !.bets = ResetBets(room)]
        r2 == scheduleTicks(r1)
    IN [room |-> r2, out |-> <<Msg("room_update", r2)>>]
startBetting(room) ==
    LET r1 == [room EXCEPT !.phase = "betting",
                           !.round = @ + 1,
                           !.timerEnd = now + BETTING_WINDOW_MS,
                           !.bets = ResetBets(room)]
        r2 == scheduleTicks(r1)
    IN [room |-> r2, out |-> <<Msg("room_update", r2)>>]

ensureBettingLoop(room) ==
    IF room.phase = "waiting" /\ RosterSize(room) > 0
    THEN startBetting(room)
    ELSE [room |-> room, out |-> <<>>]

startSpin_twice(room) ==
    LET r1 == [room EXCEPT !.phase = "spinning",
                           !.timeouts = @ \o <<now + SPIN_DELAY_MS, now + SPIN_DELAY_MS>>]
    IN [room |-> r1, out |-> <<Msg("room_update", r1)>>]
startSpin_no_timeout(room) ==
    LET r1 == [room EXCEPT !.phase = "spinning"]
    IN [room |-> r1, out |-> <<Msg("room_update", r1)>>]
startSpin(room) ==
    LET r1 == [room EXCEPT !.phase = "spinning",
                           !.timeouts = Append(@, now + SPIN_DELAY_MS)]
    IN [room |-> r1, out |-> <<Msg("room_update", r1)>>]

\* the round filter of resolveRound: if (round !== room.round) continue
Settles(room, bet) == bet.round = room.round

\* one case of resolveRound's switch: what the bet adds to delta
BetCredit_stake_back(bet, n) ==
    CASE bet.type = "number" ->
            IF EqInt(bet.value, n) THEN JsMul(bet.amount, 36) ELSE Num(0)
      [] bet.type = "color" ->
            IF (EqStr(bet.value, "red") /\ isRed(n)) \/ (EqStr(bet.value, "black") /\ isBlack(n))
            THEN JsMul(bet.amount, 2) ELSE Num(0)
      [] bet.type = "parity" ->
            IF (EqStr(bet.value, "even") /\ isEven(n)) \/ (EqStr(bet.value, "odd") /\ isOdd(n))
            THEN JsMul(bet.amount, 2) ELSE Num(0)
      [] bet.type = "range" ->
            IF (EqStr(bet.value, "low") /\ inLow(n)) \/ (EqStr(bet.value, "high") /\ inHigh(n))
            THEN JsMul(bet.amount, 2) ELSE Num(0)
      [] bet.type = "dozen" ->
            IF inDozen(n, bet.value) THEN JsMul(bet.amount, 3) ELSE Num(0)
      [] OTHER -> Num(0)
BetCredit(bet, n) ==
    CASE bet.type = "number" ->
            IF EqInt(bet.value, n) THEN JsMul(bet.amount, 35) ELSE Num(0)
      [] bet.type = "color" ->
            IF (EqStr(bet.value, "red") /\ isRed(n)) \/ (EqStr(bet.value, "black") /\ isBlack(n))
            THEN bet.amount ELSE Num(0)
      [] bet.type = "parity" ->
            IF (EqStr(bet.value, "even") /\ isEven(n)) \/ (EqStr(bet.value, "odd") /\ isOdd(n))
            THEN bet.amount ELSE Num(0)
      [] bet.type = "range" ->
            IF (EqStr(bet.value, "low") /\ inLow(n)) \/ (EqStr(bet.value, "high") /\ inHigh(n))
            THEN bet.amount ELSE Num(0)
      [] bet.type = "dozen" ->
            IF inDozen(n, bet.value) THEN JsMul(bet.amount, 2) ELSE Num(0)
      [] OTHER -> Num(0)

RECURSIVE SumCredits(_, _, _)
SumCredits(room, list, n) ==
    IF list = <<>> THEN Num(0)
    ELSE LET rest == SumCredits(room, Tail(list), n)
         IN IF Settles(room, Head(list))
            THEN JsAdd(BetCredit(Head(list), n), rest)
            ELSE rest

\* the delta resolveRound computes for one indexed player id
Delta(room, pid, n) == SumCredits(room, BetsOf(room, pid), n)

Payouts(room, n) ==
    [ws \in DOMAIN room.players |->
        IF room.players[ws].id \in room.playerIndex
        THEN [room.players[ws] EXCEPT
                 !.chips = JsAdd(@, Delta(room, room.players[ws].id, n))]
        ELSE room.players[ws]]

\* the ledger entries resolveRound evaluates, with the round it resolves
Settled(room, n) ==
    UNION {{[pid |-> pid, bet |-> BetsOf(room, pid)[i], atRound |-> room.round,
             credit |-> BetCredit(BetsOf(room, pid)[i], n)] :
               i \in {j \in DOMAIN BetsOf(room, pid) : Settles(room, BetsOf(room, pid)[j])}} :
           pid \in room.playerIndex}

resolveRound(room, n) ==
    LET result == [number |-> n, color |-> ResultColor(n), ts |-> now]
        r1 == [room EXCEPT !.lastResult = <<result>>,
                           !.history = Append(@, result),
                           !.players = Payouts(room, n)]
        msgs == <<Msg("spin_result", r1), Msg("room_update", r1)>>
        nxt == IF RosterSize(r1) > 0
               THEN startBetting(r1)
               ELSE [room |-> [r1 EXCEPT !.phase = "waiting"], out |-> <<>>]
    IN [room |-> nxt.room, out |-> msgs \o nxt.out, settled |-> Settled(room, n)]

-----------------------------------------------------------------------------
(* Bet placement                                                           *)

\* the type-specific shape check of placeBet
ValidBet(type, value) ==
    \/ type = "number" /\ IsNum(value) /\ value.n >= 0 /\ value.n <= 36
    \/ type = "color"  /\ (EqStr(value, "red") \/ EqStr(value, "black"))
    \/ type = "parity" /\ (EqStr(value, "even") \/ EqStr(value, "odd"))
    \/ type = "range"  /\ (EqStr(value, "low") \/ EqStr(value, "high"))
    \/ type = "dozen"  /\ (EqInt(value, 1) \/ EqInt(value, 2) \/ EqInt(value, 3))

\* const amount = Math.floor(bet.amount || 0)
StakeOf(bet) == MathFloor(OrZero(bet.amount))

\* the ledger entry placeBet appends
Normalized(room, bet) ==
    [type |-> bet.type, value |-> bet.value, amount |-> StakeOf(bet), round |-> room.round]

\* the rejection placeBet answers with, "" when it accepts the bet
BetError(room, playerId, bet) ==
    IF ~HasPlayer(room, playerId) THEN "player_not_found"
    ELSE IF room.phase # "betting" THEN "not_in_betting_phase"
    ELSE IF JsLe(StakeOf(bet), Num(0)) THEN "invalid_amount"
    ELSE IF JsLt(room.players[PlayerWs(room, playerId)].chips, StakeOf(bet))
         THEN "insufficient_chips"
    ELSE IF ~ValidBet(bet.type, bet.value) THEN "invalid_bet"
    ELSE ""

placeBet(room, playerId, bet) ==
    LET err == BetError(room, playerId, bet) IN
    IF err # ""
    THEN [ok |-> FALSE, error |-> err, room |-> room, out |-> <<>>]
    ELSE LET ws == PlayerWs(room, playerId)
             r1 == [room EXCEPT
                      !.players[ws].chips = JsSub(@, StakeOf(bet)),
                      !.bets = Put(@, playerId,
                                   Append(BetsOf(room, playerId), Normalized(room, bet)))]
         IN [ok |-> TRUE, error |-> "", room |-> r1, out |-> <<Msg("room_update", r1)>>]

\* placeBet(room, playerId, undefined): the two checks that come before the
\* read of bet.amount answer as usual, the read itself throws a TypeError
placeBetNoBet(room, playerId) ==
    IF ~HasPlayer(room, playerId) THEN "player_not_found"
    ELSE IF room.phase # "betting" THEN "not_in_betting_phase"
    ELSE "TypeError"

-----------------------------------------------------------------------------
(* State and handlers                                                      *)

Quiet(op) ==
    [ op |-> op, reply |-> "", out |-> <<>>, removed |-> <<>>, orphan |-> <<>>,
      settled |-> {}, timer |-> <<>> ]

NoProbe == [n |-> 0, bet |-> [type |-> "", value |-> Undef, amount |-> Undef, round |-> 0],
            done |-> FALSE, credit |-> Num(0)]

Init ==
    /\ now = 0
    /\ conns = <<>>
    /\ rooms = EmptyMap
    /\ detached = <<>>
    /\ last = Quiet("init")
    /\ probe = NoProbe
    /\ alive = TRUE

\* wss.on('connection'): a new socket, ws.id fresh, ws.roomId not yet set
Connect(limit) ==
    /\ alive
    /\ Len(conns) < limit
    /\ conns' = Append(conns, [state |-> "open", roomId |-> ""])
    /\ last' = Quiet("connect")
    /\ UNCHANGED <<now, rooms, detached, probe, alive>>

\* message {type: 'join', data: {roomId}} on connection ws
Join(ws, roomId) ==
    /\ alive
    /\ ws \in DOMAIN conns
    /\ conns[ws].state = "open"
    /\ LET id == IF roomId = "" THEN "lobby" ELSE roomId
           room == getRoom(id)
       IN IF RoomFull(room)
          THEN /\ rooms' = Put(rooms, id, room)
               /\ conns' = conns
               /\ last' = [Quiet("join") EXCEPT !.reply = "room_full"]
          ELSE LET r1 == [room EXCEPT
                            !.players = Put(@, ws, [id |-> ws, chips |-> Num(START_CHIPS)]),
                            !.playerIndex = @ \cup {ws}]
                   nxt == ensureBettingLoop(r1)
               IN /\ rooms' = Put(rooms, id, nxt.room)
                  /\ conns' = [conns EXCEPT ![ws].roomId = id]
                  /\ last' = [Quiet("join") EXCEPT
                                !.reply = "joined",
                                !.out = <<Msg("room_update", r1)>> \o nxt.out]
    /\ UNCHANGED <<now, detached, probe, alive>>

\* message {type: 'place_bet', data: {playerId, bet}} on connection ws
PlaceBet(ws, playerId, bet, cap) ==
    /\ alive
    /\ ws \in DOMAIN conns
    /\ conns[ws].state = "open"
    /\ IF conns[ws].roomId \notin DOMAIN rooms
       THEN /\ rooms' = rooms
            /\ last' = Quiet("place_bet")
       ELSE LET room == rooms[conns[ws].roomId]
                res == placeBet(room, playerId, bet)
            IN /\ LedgerSize(room) < cap
               /\ rooms' = [rooms EXCEPT ![room.id] = res.room]
               /\ last' = [Quiet("place_bet") EXCEPT
                             !.reply = IF res.ok THEN "ok" ELSE res.error,
                             !.out = res.out]
    /\ UNCHANGED <<now, conns, detached, probe, alive>>

\* an exception no handler catches ends the process: the registry, the
\* timers and the sockets go with it
Crash ==
    /\ alive' = FALSE
    /\ rooms' = EmptyMap
    /\ detached' = <<>>
    /\ conns' = [i \in DOMAIN conns |-> [conns[i] EXCEPT !.state = "closed"]]
    /\ last' = Quiet("crash")

\* a message of connection ws that is not a well-formed join or place_bet:
\* text JSON.parse rejects, a message of no known type, {type: 'place_bet'}
\* without data, and {type: 'place_bet', data: {playerId}} without a bet
MalformedKinds == {"unparseable", "no_type", "place_bet_no_data", "place_bet_no_bet"}
Malformed(ws, kind, playerId) ==
    /\ alive
    /\ ws \in DOMAIN conns
    /\ conns[ws].state = "open"
    /\ kind \in MalformedKinds
    /\ LET dropped == /\ UNCHANGED <<conns, rooms, detached, alive>>
                      /\ last' = Quiet("message")
       IN IF kind \in {"unparseable", "no_type"} \/ conns[ws].roomId \notin DOMAIN rooms
          THEN dropped
          ELSE IF kind = "place_bet_no_data"
          THEN Crash
          ELSE LET res == placeBetNoBet(rooms[conns[ws].roomId], playerId)
               IN IF res = "TypeError"
                  THEN Crash
                  ELSE /\ UNCHANGED <<conns, rooms, detached, alive>>
                       /\ last' = [Quiet("message") EXCEPT !.reply = res]
    /\ UNCHANGED <<now, probe>>

\* ws.on('close')
Close(ws) ==
    /\ alive
    /\ ws \in DOMAIN conns
    /\ conns[ws].state = "open"
    /\ conns' = [conns EXCEPT ![ws].state = "closed"]
    /\ IF conns[ws].roomId \notin DOMAIN rooms
       THEN /\ UNCHANGED <<rooms, detached>>
            /\ last' = Quiet("close")
       ELSE LET room == rooms[conns[ws].roomId] IN
            IF ws \notin DOMAIN room.players
            THEN /\ UNCHANGED <<rooms, detached>>
                 /\ last' = Quiet("close")
            ELSE LET r1 == [room EXCEPT
                              !.players = Drop(@, ws),
                              !.playerIndex = @ \ {room.players[ws].id}]
                     msgs == <<[Msg("room_update", r1) EXCEPT !.to = @ \ {ws}]>>
                 IN IF RosterSize(r1) = 0
                    THEN LET r2 == ClearTick(r1)
                         IN /\ rooms' = Drop(rooms, room.id)
                            /\ detached' = IF r2.timeouts = <<>> THEN detached
                                           ELSE Append(detached, r2)
                            /\ last' = [Quiet("close") EXCEPT
                                          !.out = msgs, !.removed = <<r2>>]
                    ELSE /\ rooms' = [rooms EXCEPT ![room.id] = r1]
                         /\ detached' = detached
                         /\ last' = [Quiet("close") EXCEPT !.out = msgs]
    /\ UNCHANGED <<now, probe, alive>>

\* one firing of the interval scheduleTicks set, on a registered room
Tick(id) ==
    /\ alive
    /\ id \in DOMAIN rooms
    /\ rooms[id].intervals > 0
    /\ LET room == rooms[id]
           timer == Msg("timer", room)
           data == <<[now |-> now, timerEnd |-> room.timerEnd]>>
       IN IF room.phase = "betting" /\ now >= room.timerEnd
          THEN LET nxt == startSpin(StopTick(room))
               IN /\ rooms' = [rooms EXCEPT ![id] = nxt.room]
                  /\ last' = [Quiet("tick") EXCEPT
                                !.out = <<timer>> \o nxt.out, !.timer = data]
          ELSE /\ rooms' = rooms
               /\ last' = [Quiet("tick") EXCEPT !.out = <<timer>>, !.timer = data]
    /\ UNCHANGED <<now, conns, detached, probe, alive>>

\* the callback startSpin scheduled, on a room still registered
Resolve(id, n) ==
    /\ alive
    /\ id \in DOMAIN rooms
    /\ rooms[id].timeouts # <<>>
    /\ Head(rooms[id].timeouts) <= now
    /\ LET res == resolveRound([rooms[id] EXCEPT !.timeouts = Tail(@)], n)
       IN /\ rooms' = [rooms EXCEPT ![id] = res.room]
          /\ last' = [Quiet("resolve") EXCEPT !.out = res.out, !.settled = res.settled]
    /\ UNCHANGED <<now, conns, detached, probe, alive>>

\* the callback startSpin scheduled, on a room deleted from the registry
ResolveDetached(i, n) ==
    /\ alive
    /\ i \in DOMAIN detached
    /\ Head(detached[i].timeouts) <= now
    /\ LET res == resolveRound([detached[i] EXCEPT !.timeouts = Tail(@)], n)
           keep == [j \in DOMAIN detached |-> IF j = i THEN res.room ELSE detached[j]]
       IN /\ detached' = SelectSeq(keep, LAMBDA r : r.timeouts # <<>>)
          /\ last' = [Quiet("resolve_detached") EXCEPT
                        !.out = res.out, !.settled = res.settled,
                        !.orphan = <<res.room>>]
    /\ UNCHANGED <<now, conns, rooms, probe, alive>>

\* time passes, as long as the process is there to read the clock
AdvanceTime(steps) ==
    /\ alive
    /\ now + TimeStep <= steps * TimeStep
    /\ now' = now + TimeStep
    /\ last' = Quiet("time")
    /\ UNCHANGED <<conns, rooms, detached, probe, alive>>

-----------------------------------------------------------------------------
(* The game specification: a few connections, one room, every kind of bet  *)
(* message                                                                 *)

GameRoomInputs == {"", "lobby"}
GameRooms == {"lobby"}
GameOutcomes == {0, 7, 20}
GameShapes ==
    { [type |-> "number", value |-> Num(7)],
      [type |-> "color",  value |-> Str("red")] }
GameStakes == {Num(100), Half(100), Num(0), Num(2000), Str("abc"), Undef}
BadShapes ==
    { [type |-> "number", value |-> Num(37)],
      [type |-> "color",  value |-> Str("green")],
      [type |-> "split",  value |-> Num(7)] }
GameBets ==
    {[type |-> sh.type, value |-> sh.value, amount |-> a] :
        sh \in GameShapes, a \in GameStakes} \cup
    {[type |-> sh.type, value |-> sh.value, amount |-> Num(100)] : sh \in BadShapes}

Next ==
    \/ Connect(GameConns)
    \/ \E ws \in 1..GameConns, roomId \in GameRoomInputs : Join(ws, roomId)
    \/ \E ws \in 1..GameConns, pid \in 1..GameConns, bet \in GameBets :
            PlaceBet(ws, pid, bet, MaxBets)
    \/ \E ws \in 1..GameConns : Close(ws)
    \/ \E id \in GameRooms : Tick(id)
    \/ \E id \in GameRooms, n \in GameOutcomes : Resolve(id, n)
    \/ \E i \in 1..GameConns, n \in GameOutcomes : ResolveDetached(i, n)
    \/ AdvanceTime(MaxClockSteps)

Spec == Init /\ [][Next]_vars

-----------------------------------------------------------------------------
(* The capacity specification: one connection more than a room holds       *)

CapConns == MAX_PLAYERS + 1
CapOutcomes == {7}
\* the connections that place bets and that close in this specification
CapBettors == {1}
CapClosers == {1, CapConns}
CapBetInputs == {[type |-> "color", value |-> Str("red"), amount |-> Num(100)]}

NextCap ==
    \/ Connect(CapConns)
    \/ \E ws \in 1..CapConns : Join(ws, "lobby")
    \/ \E ws \in CapBettors, bet \in CapBetInputs : PlaceBet(ws, ws, bet, CapBets)
    \/ \E ws \in CapClosers : Close(ws)
    \/ Tick("lobby")
    \/ \E n \in CapOutcomes : Resolve("lobby", n)
    \/ \E n \in CapOutcomes : ResolveDetached(1, n)
    \/ AdvanceTime(CapClockSteps)

SpecCap == Init /\ [][NextCap]_vars

-----------------------------------------------------------------------------
(* The round specification: one room, one kind of bet placed for any       *)
(* player, joins and leaves at any time                                    *)

RoundConns == 2
RoundOutcomes == {7}
RoundBetInputs == {[type |-> "color", value |-> Str("red"), amount |-> Num(100)]}

NextRound ==
    \/ Connect(RoundConns)
    \/ \E ws \in 1..RoundConns : Join(ws, "lobby")
    \/ \E ws \in 1..RoundConns, pid \in 1..RoundConns, bet \in RoundBetInputs :
            PlaceBet(ws, pid, bet, MaxBets)
    \/ \E ws \in 1..RoundConns : Close(ws)
    \/ Tick("lobby")
    \/ \E n \in RoundOutcomes : Resolve("lobby", n)
    \/ \E i \in 1..RoundConns, n \in RoundOutcomes : ResolveDetached(i, n)
    \/ AdvanceTime(MaxClockSteps)

SpecRound == Init /\ [][NextRound]_vars

-----------------------------------------------------------------------------
(* The registry specification: two room ids, connections that may join     *)
(* one room after the other, and no bets                                   *)

RegConns == 2
RegRooms == {"lobby", "vip"}
RegOutcomes == {7}
\* the first connection joins either room, the others the lobby
RegJoins == {<<ws, id>> \in (1..RegConns) \X RegRooms : ws = 1 \/ id = "lobby"}

NextReg ==
    \/ Connect(RegConns)
    \/ \E j \in RegJoins : Join(j[1], j[2])
    \/ \E ws \in 1..RegConns : Close(ws)
    \/ \E id \in RegRooms : Tick(id)
    \/ \E id \in RegRooms, n \in RegOutcomes : Resolve(id, n)
    \/ \E i \in 1..RegConns, n \in RegOutcomes : ResolveDetached(i, n)
    \/ AdvanceTime(CapClockSteps)

SpecReg == Init /\ [][NextReg]_vars

-----------------------------------------------------------------------------
(* The solo specification: one player, one bet on an even-money spot, and  *)
(* every number of the wheel as the outcome                                *)

SoloBets == 1
SoloShapes ==
    { [type |-> "color",  value |-> Str("red")],  [type |-> "color",  value |-> Str("black")],
      [type |-> "parity", value |-> Str("even")], [type |-> "parity", value |-> Str("odd")],
      [type |-> "range",  value |-> Str("low")],  [type |-> "range",  value |-> Str("high")] }
SoloBetInputs ==
    {[type |-> sh.type, value |-> sh.value, amount |-> a] :
        sh \in SoloShapes, a \in {Num(100), Str("abc")}}

NextSolo ==
    \/ Connect(1)
    \/ Join(1, "lobby")
    \/ \E bet \in SoloBetInputs : PlaceBet(1, 1, bet, SoloBets)
    \/ Close(1)
    \/ Tick("lobby")
    \/ \E n \in WheelNumbers : Resolve("lobby", n)
    \/ \E n \in WheelNumbers : ResolveDetached(1, n)
    \/ AdvanceTime(MaxClockSteps)

SpecSolo == Init /\ [][NextSolo]_vars

-----------------------------------------------------------------------------
(* The message specification: one room, well-formed joins and bets next to *)
(* every kind of malformed message                                         *)

MsgConns == 2
MsgOutcomes == {7}
MsgRoomInputs == {"", "lobby"}
MsgBetInputs == {[type |-> "color", value |-> Str("red"), amount |-> Num(100)]}

NextMsg ==
    \/ Connect(MsgConns)
    \/ \E ws \in 1..MsgConns, roomId \in MsgRoomInputs : Join(ws, roomId)
    \/ \E ws \in 1..MsgConns, bet \in MsgBetInputs : PlaceBet(ws, ws, bet, SoloBets)
    \/ \E ws \in 1..MsgConns, kind \in MalformedKinds, pid \in 1..MsgConns :
            Malformed(ws, kind, pid)
    \/ \E ws \in 1..MsgConns : Close(ws)
    \/ Tick("lobby")
    \/ \E n \in MsgOutcomes : Resolve("lobby", n)
    \/ \E i \in 1..MsgConns, n \in MsgOutcomes : ResolveDetached(i, n)
    \/ AdvanceTime(MaxClockSteps)

SpecMsg == Init /\ [][NextMsg]_vars

-----------------------------------------------------------------------------
(* The progress specification: one room whose first connection never       *)
(* closes, joins and leaves of the others, no bets, and the interval, the  *)
(* timeout and the clock scheduled fairly                                  *)

LiveConns == 2
LiveClockSteps == 4
LiveOutcomes == {7}
\* the connections that may close; the first one stays
LiveLeavers == 2..LiveConns

NextLive ==
    \/ Connect(LiveConns)
    \/ \E ws \in 1..LiveConns : Join(ws, "lobby")
    \/ \E ws \in LiveLeavers : Close(ws)
    \/ Tick("lobby")
    \/ \E n \in LiveOutcomes : Resolve("lobby", n)
    \/ \E i \in 1..LiveConns, n \in LiveOutcomes : ResolveDetached(i, n)
    \/ AdvanceTime(LiveClockSteps)

\* setInterval keeps firing, a setTimeout fires once it is due, time passes
LiveFairness ==
    /\ WF_vars(Tick("lobby"))
    /\ WF_vars(\E n \in LiveOutcomes : Resolve("lobby", n))
    /\ WF_vars(AdvanceTime(LiveClockSteps))

SpecLive == Init /\ [][NextLive]_vars /\ LiveFairness

-----------------------------------------------------------------------------
(* The evaluator specification: one bet of every valid shape settled       *)
(* against every number of the wheel                                       *)

EvalShapes ==
    {[type |-> "number", value |-> Num(v)] : v \in WheelNumbers} \cup
    {[type |-> "color",  value |-> Str(c)] : c \in {"red", "black"}} \cup
    {[type |-> "parity", value |-> Str(c)] : c \in {"even", "odd"}} \cup
    {[type |-> "range",  value |-> Str(c)] : c \in {"low", "high"}} \cup
    {[type |-> "dozen",  value |-> Num(d)] : d \in {1, 2, 3}}

InitEval ==
    /\ now = 0
    /\ conns = <<>>
    /\ rooms = EmptyMap
    /\ detached = <<>>
    /\ alive = TRUE
    /\ last = Quiet("init")
    /\ probe \in {[n |-> n,
                   bet |-> [type |-> sh.type, value |-> sh.value,
                            amount |-> Num(100), round |-> 1],
                   done |-> FALSE, credit |-> Num(0)] :
                       n \in WheelNumbers, sh \in EvalShapes}

\* the switch of resolveRound applied to the one bet, and the result colour
Evaluate ==
    /\ alive
    /\ ~probe.done
    /\ probe' = [probe EXCEPT !.done = TRUE, !.credit = BetCredit(probe.bet, probe.n)]
    /\ UNCHANGED <<now, conns, rooms, detached, last, alive>>

NextEval == Evaluate

SpecEval == InitEval /\ [][NextEval]_vars

-----------------------------------------------------------------------------
(* Properties                                                              *)

HasRoomUpdate(out) == \E i \in DOMAIN out : out[i].type = "room_update"

\* C1: a roster never holds more than MAX_PLAYERS players, and a join that
\* finds the roster at MAX_PLAYERS is answered room_full, changes nothing of
\* the room (roster, ledger, round, phase, deadline) and broadcasts no
\* room_update.
C1_Step ==
    /\ \A id \in DOMAIN rooms' : RosterSize(rooms'[id]) <= MAX_PLAYERS
    /\ \A ws \in 1..CapConns :
          ( /\ "lobby" \in DOMAIN rooms
            /\ RosterSize(rooms["lobby"]) = MAX_PLAYERS
            /\ Join(ws, "lobby") )
          => /\ last'.reply = "room_full"
             /\ rooms' = rooms
             /\ ~HasRoomUpdate(last'.out)
C1_RosterCapacity == [][C1_Step]_vars

C1_Witness ==
    /\ last.op = "join"
    /\ last.reply = "room_full"
    /\ "lobby" \in DOMAIN rooms
    /\ RosterSize(rooms["lobby"]) = MAX_PLAYERS

\* The reply the specification gives a place_bet message.  A stake is taken
\* to be a positive integer when it is a number of integer part 1 or more.
PositiveStake(a) == a.k \in {"num", "half"} /\ a.n >= 1
ClaimedShapeOk(bet) ==
    \/ bet.type = "number" /\ \E v \in 0..36 : bet.value = Num(v)
    \/ bet.type = "color"  /\ bet.value \in {Str("red"), Str("black")}
    \/ bet.type = "parity" /\ bet.value \in {Str("even"), Str("odd")}
    \/ bet.type = "range"  /\ bet.value \in {Str("low"), Str("high")}
    \/ bet.type = "dozen"  /\ bet.value \in {Num(1), Num(2), Num(3)}
ClaimedReply(room, pid, bet) ==
    IF \A ws \in DOMAIN room.players : room.players[ws].id # pid THEN "player_not_found"
    ELSE IF room.phase # "betting" THEN "not_in_betting_phase"
    ELSE IF ~PositiveStake(bet.amount) THEN "invalid_amount"
    ELSE IF room.players[PlayerWs(room, pid)].chips.n < bet.amount.n THEN "insufficient_chips"
    ELSE IF ~ClaimedShapeOk(bet) THEN "invalid_bet"
    ELSE "ok"

\* C2: placeBet rejects with player_not_found, not_in_betting_phase,
\* invalid_amount (stake not a positive integer), insufficient_chips or
\* invalid_bet, and a rejection changes no balance, adds no ledger entry and
\* broadcasts nothing.
C2_Step ==
    \A ws \in 1..GameConns, pid \in 1..GameConns, bet \in GameBets :
        ( /\ ws \in DOMAIN conns
          /\ conns[ws].roomId \in DOMAIN rooms
          /\ PlaceBet(ws, pid, bet, MaxBets) )
        => LET want == ClaimedReply(rooms[conns[ws].roomId], pid, bet)
           IN /\ last'.reply = want
              /\ want # "ok" => (rooms' = rooms /\ last'.out = <<>>)
C2_Claim == [][C2_Step]_vars

\* C3: a successful placeBet with stake A takes exactly A from the player's
\* balance, appends exactly one entry {type, value, A, current round} to that
\* player's ledger, leaves every other player's balance and ledger as they
\* were, and broadcasts a room_update.
C3_Step ==
    \A ws \in 1..GameConns, pid \in 1..GameConns, bet \in GameBets :
        ( /\ ws \in DOMAIN conns
          /\ conns[ws].roomId \in DOMAIN rooms
          /\ PlaceBet(ws, pid, bet, MaxBets)
          /\ last'.reply = "ok" )
        => LET a == rooms[conns[ws].roomId]
               b == rooms'[conns[ws].roomId]
               w == PlayerWs(a, pid)
               A == a.players[w].chips.n - b.players[w].chips.n
           IN /\ IsNum(a.players[w].chips) /\ IsNum(b.players[w].chips)
              /\ A >= 1
              /\ BetsOf(b, pid) = Append(BetsOf(a, pid),
                     [type |-> bet.type, value |-> bet.value,
                      amount |-> Num(A), round |-> a.round])
              /\ \A o \in DOMAIN a.players \ {w} : b.players[o] = a.players[o]
              /\ \A q \in DOMAIN a.bets \ {pid} : b.bets[q] = a.bets[q]
              /\ HasRoomUpdate(last'.out)
C3_Claim == [][C3_Step]_vars

\* C4: every player's chip balance is a non-negative integer in every
\* reachable state.
C4_Claim ==
    \A id \in DOMAIN rooms : \A ws \in DOMAIN rooms[id].players :
        IsNum(rooms[id].players[ws].chips) /\ rooms[id].players[ws].chips.n >= 0

C6_Step ==
    \A id \in GameRooms, n \in GameOutcomes :
        Resolve(id, n) =>
          \A ws \in DOMAIN rooms[id].players :
            LET p == rooms[id].players[ws]
                l == BetsOf(rooms[id], p.id)
            IN ( /\ Len(l) = 1
                 /\ l[1].type = "number" /\ l[1].value = Num(n)
                 /\ l[1].round = rooms[id].round
                 /\ IsNum(l[1].amount) /\ IsNum(p.chips) )
               => rooms'[id].players[ws].chips = Num(p.chips.n + 36 * l[1].amount.n)
C6_Claim == [][C6_Step]_vars

\* Whether a bet on an even-money spot wins against the result broadcast.
OutsideWins(bet, result) ==
    CASE bet.type = "color"  -> bet.value = Str(result.color)
      [] bet.type = "parity" ->
            /\ result.number \in 1..36
            /\ (bet.value = Str("even")) <=> (result.number % 2 = 0)
      [] bet.type = "range"  ->
            \/ bet.value = Str("low")  /\ result.number \in 1..18
            \/ bet.value = Str("high") /\ result.number \in 19..36
      [] OTHER -> FALSE

RedHundred == [type |-> "color", value |-> Str("red"), amount |-> Num(100)]

\* C7: the first player of an empty room starts with 1000 in round 1, phase
\* betting; a bet of 100 on red leaves 900 and one ledger entry of round 1;
\* the resolution makes the balance 1000 when the result is red and leaves
\* 900 when it is black or zero.  A winning color, parity or range bet of
\* stake A credits exactly A and a losing one credits nothing.
C7_Step ==
    /\ ("lobby" \notin DOMAIN rooms /\ last'.op = "join" /\ Join(1, "lobby"))
       => /\ rooms'["lobby"].players[1].chips = Num(1000)
          /\ rooms'["lobby"].round = 1
          /\ rooms'["lobby"].phase = "betting"
    /\ ( /\ "lobby" \in DOMAIN rooms
         /\ 1 \in DOMAIN rooms["lobby"].players
         /\ rooms["lobby"].players[1].chips = Num(1000)
         /\ rooms["lobby"].phase = "betting"
         /\ rooms["lobby"].round = 1
         /\ last'.op = "place_bet"
         /\ PlaceBet(1, 1, RedHundred, SoloBets) )
       => /\ rooms'["lobby"].players[1].chips = Num(900)
          /\ rooms'["lobby"].bets[1] = Append(BetsOf(rooms["lobby"], 1),
                [type |-> "color", value |-> Str("red"), amount |-> Num(100), round |-> 1])
    /\ last'.op = "resolve" =>
         LET n == rooms'["lobby"].lastResult[1].number IN
           (n \in WheelNumbers /\ Resolve("lobby", n)) =>
             LET a == rooms["lobby"]
                 b == rooms'["lobby"]
                 result == b.lastResult[1]
             IN /\ \A e \in last'.settled :
                      (e.bet.type \in {"color", "parity", "range"} /\ IsNum(e.bet.amount))
                      => e.credit = IF OutsideWins(e.bet, result) THEN e.bet.amount ELSE Num(0)
                /\ \A ws \in DOMAIN a.players :
                      LET l == BetsOf(a, a.players[ws].id) IN
                      (Len(l) = 1 /\ IsNum(l[1].amount) /\ IsNum(a.players[ws].chips))
                      => b.players[ws].chips =
                            Num(a.players[ws].chips.n +
                                (IF OutsideWins(l[1], result) THEN l[1].amount.n ELSE 0))
                /\ ( /\ 1 \in DOMAIN a.players
                     /\ a.players[1].chips = Num(900)
                     /\ BetsOf(a, 1) = <<[type |-> "color", value |-> Str("red"),
                                          amount |-> Num(100), round |-> a.round]>> )
                   => b.players[1].chips =
                         IF result.color = "red" THEN Num(1000) ELSE Num(900)
C7_EvenMoney == [][C7_Step]_vars

C7_Witness ==
    /\ last.op = "resolve"
    /\ "lobby" \in DOMAIN rooms
    /\ rooms["lobby"].round = 2
    /\ rooms["lobby"].lastResult[1].color = "red"
    /\ 1 \in DOMAIN rooms["lobby"].players
    /\ rooms["lobby"].players[1].chips = Num(1000)
    /\ \E e \in last.settled :
          /\ e.bet = [type |-> "color", value |-> Str("red"), amount |-> Num(100), round |-> 1]
          /\ e.credit = Num(100)

\* C8: every number 0..36 is exactly one of red, black and neutral, 0 is
\* neutral, and on 0 every color, parity, range and dozen bet is credited
\* nothing while a number bet on 0 is credited.
C8_ZeroLosesOutside ==
    LET n == probe.n
        classes == {c \in {"red", "black", "green"} :
                       \/ c = "red" /\ isRed(n)
                       \/ c = "black" /\ isBlack(n)
                       \/ c = "green" /\ ResultColor(n) = "green"}
    IN /\ Cardinality(classes) = 1
       /\ n = 0 => classes = {"green"}
       /\ (probe.done /\ n = 0) =>
             IF probe.bet.type = "number" /\ probe.bet.value = Num(0)
             THEN IsNum(probe.credit) /\ probe.credit.n > 0
             ELSE probe.credit = Num(0)

C8_Witness ==
    /\ probe.done
    /\ probe.n = 0
    /\ probe.bet.type = "parity"
    /\ probe.bet.value = Str("even")
    /\ probe.credit = Num(0)

\* C9: the round counter of a room starts at 0, never decreases, and grows
\* by exactly 1 in exactly the steps in which the room enters betting; a
\* resolution with players in the roster enters betting with round + 1 in the
\* same step, and one with an empty roster leaves waiting and the round as
\* it was.
C9_Step ==
    /\ \A id \in DOMAIN rooms \cap DOMAIN rooms' :
          LET a == rooms[id]
              b == rooms'[id]
              enters == b.phase = "betting" /\ a.phase # "betting"
          IN /\ b.round >= a.round
             /\ b.round # a.round => b.round = a.round + 1
             /\ enters <=> b.round = a.round + 1
    /\ \A id \in DOMAIN rooms' \ DOMAIN rooms :
          /\ NewRoom(id).round = 0
          /\ rooms'[id].round = 1
          /\ rooms'[id].phase = "betting"
    /\ last'.op = "resolve" =>
          \A id \in DOMAIN rooms :
             ( /\ rooms'[id] # rooms[id]
               /\ Resolve(id, rooms'[id].lastResult[1].number)
               /\ RosterSize(rooms[id]) > 0 )
             => /\ rooms[id].phase = "spinning"
                /\ rooms'[id].phase = "betting"
                /\ rooms'[id].round = rooms[id].round + 1
    /\ last'.op = "resolve_detached" =>
          \A i \in DOMAIN detached :
             ( /\ ResolveDetached(i, last'.orphan[1].lastResult[1].number)
               /\ RosterSize(detached[i]) = 0 )
             => /\ detached[i].phase = "spinning"
                /\ last'.orphan[1].phase = "waiting"
                /\ last'.orphan[1].round = detached[i].round
C9_RoundCounter == [][C9_Step]_vars

C9_Witness ==
    /\ last.op = "resolve"
    /\ "lobby" \in DOMAIN rooms
    /\ rooms["lobby"].round = 2
    /\ rooms["lobby"].phase = "betting"

\* The close of the connection that is the whole roster of its room, in betting.
LastLeaves(ws) ==
    /\ ws \in DOMAIN conns
    /\ conns[ws].roomId \in DOMAIN rooms
    /\ DOMAIN rooms[conns[ws].roomId].players = {ws}
    /\ rooms[conns[ws].roomId].phase = "betting"
    /\ Close(ws)

\* C10 as stated: when the last player disconnects during betting, the tick
\* is cancelled, the phase becomes waiting and the room leaves the registry,
\* all in that step.
C10_Original ==
    [][\A ws \in DOMAIN conns :
          LastLeaves(ws) =>
             /\ last'.removed # <<>>
             /\ last'.removed[1].tick # "active"
             /\ last'.removed[1].phase = "waiting"
             /\ conns[ws].roomId \notin DOMAIN rooms']_vars

\* C10 as amended: when a disconnect empties the roster of a room in betting,
\* in that step the tick is cancelled, the room leaves the registry and no
\* callback of it stays scheduled; the phase of the discarded room is left at
\* betting.
C10_Amended ==
    [][\A ws \in DOMAIN conns :
          LastLeaves(ws) =>
             /\ last'.removed # <<>>
             /\ last'.removed[1].tick = "cleared"
             /\ last'.removed[1].timeouts = <<>>
             /\ last'.removed[1].phase = "betting"
             /\ detached' = detached
             /\ conns[ws].roomId \notin DOMAIN rooms']_vars

C10_Witness ==
    /\ last.op = "close"
    /\ last.removed # <<>>
    /\ last.removed[1].phase = "betting"
    /\ last.removed[1].tick = "cleared"
    /\ last.removed[1].id \notin DOMAIN rooms

\* The ledger of a room cut down to the players of its roster.
RosterLedger(room) ==
    [pid \in {q \in DOMAIN room.bets : HasPlayer(room, q)} |-> room.bets[pid]]

\* C11: every player id with an entry in a room's ledger is the id of a
\* player of its roster, and the per-spot aggregation of the current round
\* counts the bets of roster players only.
C11_Claim ==
    \A id \in DOMAIN rooms :
        /\ \A pid \in DOMAIN rooms[id].bets : HasPlayer(rooms[id], pid)
        /\ aggregatePublicBets(rooms[id]) =
              aggregatePublicBets([rooms[id] EXCEPT !.bets = RosterLedger(rooms[id])])

\* C12: a room that enters betting has its deadline at the current time plus
\* BETTING_WINDOW_MS; the deadline stays as it is while the phase lasts,
\* whatever joins, leaves and bets happen; the room leaves betting for
\* spinning only at or after the deadline; and every timer message sent
\* during the phase carries that deadline.
C12_Step ==
    /\ \A id \in DOMAIN rooms' :
          LET b == rooms'[id]
              entered == \/ id \notin DOMAIN rooms
                         \/ rooms[id].phase # "betting"
                         \/ rooms[id].round # b.round
          IN (b.phase = "betting" /\ entered) => b.timerEnd = now + BETTING_WINDOW_MS
    /\ \A id \in DOMAIN rooms \cap DOMAIN rooms' :
          LET a == rooms[id]
              b == rooms'[id]
          IN /\ (a.phase = "betting" /\ b.phase = "betting" /\ a.round = b.round)
                   => b.timerEnd = a.timerEnd
             /\ (a.phase = "betting" /\ b.phase = "spinning")
                   => (now >= a.timerEnd /\ last'.op = "tick")
    /\ last'.op = "tick" =>
          LET id == last'.out[1].room
          IN /\ Len(last'.timer) = 1
             /\ last'.timer[1].now = now
             /\ rooms[id].phase = "betting" => last'.timer[1].timerEnd = rooms[id].timerEnd
C12_Deadline == [][C12_Step]_vars

C12_Witness ==
    /\ last.op = "tick"
    /\ "lobby" \in DOMAIN rooms
    /\ rooms["lobby"].phase = "spinning"
    /\ rooms["lobby"].round = 1
    /\ now = rooms["lobby"].timerEnd
    /\ RosterSize(rooms["lobby"]) = 2
    /\ LedgerSize(rooms["lobby"]) > 0

\* C13: no message is fatal.  A malformed message (unparseable text, a
\* message of no known type, a place_bet without data or without a bet, a
\* join without data, a place_bet of a connection that never joined) is
\* answered by nothing, leaves every room as it was, and the process goes on.
C13_Step ==
    /\ alive'
    /\ \A ws \in DOMAIN conns, kind \in MalformedKinds, pid \in DOMAIN conns :
          Malformed(ws, kind, pid)
          => (rooms' = rooms /\ last'.reply = "" /\ last'.out = <<>>)
    /\ \A ws \in DOMAIN conns :
          Join(ws, "") => (rooms' = rooms /\ last'.reply = "" /\ last'.out = <<>>)
    /\ \A ws \in DOMAIN conns, bet \in MsgBetInputs :
          (conns[ws].roomId = "" /\ PlaceBet(ws, ws, bet, SoloBets))
          => (rooms' = rooms /\ last'.reply = "" /\ last'.out = <<>>)
C13_Claim == [][C13_Step]_vars

\* C14: the registry holds no room with an empty roster.  A room enters the
\* registry only by a join naming its id, and then as a fresh room: round 1
\* of its first betting phase, no history, no result, an empty ledger, the
\* joining connection its only player.  A join naming a registered id works
\* on the room that is there: round, phase, deadline, history, ledger, timers
\* and the other players stay as they were.  A close that empties the roster
\* takes the room out of the registry.
C14_Step ==
    /\ \A id \in DOMAIN rooms' : RosterSize(rooms'[id]) > 0
    /\ \A id \in DOMAIN rooms' \ DOMAIN rooms :
          LET b == rooms'[id]
          IN /\ last'.op = "join"
             /\ b.id = id
             /\ b.round = NewRoom(id).round + 1
             /\ b.history = <<>> /\ b.lastResult = <<>>
             /\ LedgerSize(b) = 0
             /\ RosterSize(b) = 1
             /\ b.timeouts = <<>>
    /\ last'.op = "join" =>
          \A ws \in DOMAIN conns, id \in DOMAIN rooms :
             Join(ws, id) =>
                LET a == rooms[id]
                    b == rooms'[id]
                IN /\ b.round = a.round /\ b.phase = a.phase /\ b.timerEnd = a.timerEnd
                   /\ b.history = a.history /\ b.lastResult = a.lastResult
                   /\ b.bets = a.bets
                   /\ b.tick = a.tick /\ b.intervals = a.intervals
                   /\ b.timeouts = a.timeouts
                   /\ \A o \in DOMAIN a.players \ {ws} :
                         o \in DOMAIN b.players /\ b.players[o] = a.players[o]
    /\ last'.op = "close" =>
          \A ws \in DOMAIN conns :
             ( /\ conns[ws].roomId \in DOMAIN rooms
               /\ DOMAIN rooms[conns[ws].roomId].players = {ws}
               /\ Close(ws) )
             => conns[ws].roomId \notin DOMAIN rooms'
C14_Registry == [][C14_Step]_vars

C14_Witness ==
    /\ last.op = "join"
    /\ "lobby" \in DOMAIN rooms
    /\ rooms["lobby"].round = 1
    /\ rooms["lobby"].history = <<>>
    /\ \E i \in DOMAIN detached : detached[i].id = "lobby" /\ detached[i].round >= 1

\* C15: a room has a live periodic tick exactly when it is registered and in
\* betting, and never more than one.  The step that moves a room to spinning
\* and the step that takes it out of the registry cancel the tick, and a
\* tick fires only for a registered room in betting.
C15_Step ==
    /\ \A id \in DOMAIN rooms' :
          LET b == rooms'[id]
          IN /\ b.intervals <= 1
             /\ b.intervals = 1 <=> b.phase = "betting"
             /\ b.tick = "active" <=> b.intervals = 1
    /\ \A i \in DOMAIN detached' : detached'[i].intervals = 0
    /\ last'.removed # <<>> => last'.removed[1].intervals = 0
    /\ \A id \in DOMAIN rooms \cap DOMAIN rooms' :
          (rooms[id].phase = "betting" /\ rooms'[id].phase = "spinning")
          => (rooms[id].intervals = 1 /\ rooms'[id].intervals = 0)
    /\ last'.op = "tick" =>
          /\ last'.out[1].room \in DOMAIN rooms
          /\ rooms[last'.out[1].room].phase = "betting"
C15_TickActive == [][C15_Step]_vars

C15_Witness ==
    /\ last.op = "tick"
    /\ "vip" \in DOMAIN rooms
    /\ rooms["vip"].phase = "spinning"
    /\ rooms["vip"].intervals = 0
    /\ rooms["vip"].tick = "null"
    /\ "lobby" \in DOMAIN rooms
    /\ rooms["lobby"].intervals = 1

\* C16: a close that empties a roster while a resolution is pending cancels
\* it: the room taken out of the registry has no callback left, no callback
\* of a removed room ever runs, and so no removed room is written again.
C16_Step ==
    /\ last'.removed # <<>> => last'.removed[1].timeouts = <<>>
    /\ detached' = <<>>
    /\ last'.op # "resolve_detached"
C16_Claim == [][C16_Step]_vars

\* The room "lobby" with the first connection in its roster, in the given
\* phase.
LobbyIn(phase) ==
    /\ "lobby" \in DOMAIN rooms
    /\ 1 \in DOMAIN rooms["lobby"].players
    /\ rooms["lobby"].phase = phase

LiveHorizon == LiveClockSteps * TimeStep

\* the room leaves spinning only for the betting phase of the next round
NextRoundOnly ==
    \A id \in DOMAIN rooms \cap DOMAIN rooms' :
        (rooms[id].phase = "spinning" /\ rooms'[id].phase # "spinning")
        => (rooms'[id].phase = "betting" /\ rooms'[id].round = rooms[id].round + 1)

\* C17: with the tick, the deferred resolution and the clock scheduled
\* fairly, a room whose roster stays non-empty goes from betting to spinning
\* and from spinning to betting again, in a round one higher, as far as the
\* clock of the model reaches.
C17_Progress ==
    /\ (LobbyIn("betting") /\ rooms["lobby"].timerEnd <= LiveHorizon)
          ~> LobbyIn("spinning")
    /\ (LobbyIn("spinning") /\ now + TimeStep <= LiveHorizon)
          ~> LobbyIn("betting")
    /\ [][NextRoundOnly]_vars

C17_Witness ==
    /\ last.op = "resolve"
    /\ LobbyIn("betting")
    /\ rooms["lobby"].round = 3
    /\ RosterSize(rooms["lobby"]) = 2

CountType(out, type) == Cardinality({i \in DOMAIN out : out[i].type = type})

\* What one resolution does to the room object a, giving b.
OneResolution(a, b, out) ==
    /\ a.phase = "spinning"
    /\ Len(a.timeouts) = 1
    /\ b.timeouts = <<>>
    /\ Len(b.history) = Len(a.history) + 1
    /\ b.lastResult = <<b.history[Len(b.history)]>>
    /\ CountType(out, "spin_result") = 1
    /\ IF RosterSize(a) > 0
       THEN b.phase = "betting" /\ b.round = a.round + 1
       ELSE b.phase = "waiting" /\ b.round = a.round

\* C18: every entry into spinning schedules one resolution and is followed
\* by no more than one; a resolution runs only on a room in spinning, sends
\* one spin_result and appends one outcome to the history; a round is
\* resolved once, so a registered room in round r has r - 1 outcomes in its
\* history; and no other step sends a spin_result.
C18_Step ==
    /\ \A id \in DOMAIN rooms' :
          LET b == rooms'[id]
          IN /\ Len(b.timeouts) <= 1
             /\ b.timeouts # <<>> <=> b.phase = "spinning"
             /\ Len(b.history) = b.round - 1
    /\ \A i \in DOMAIN detached' :
          Len(detached'[i].timeouts) = 1 /\ detached'[i].phase = "spinning"
    /\ \A id \in DOMAIN rooms \cap DOMAIN rooms' :
          (rooms[id].phase # "spinning" /\ rooms'[id].phase = "spinning")
          => (rooms[id].phase = "betting" /\ last'.op = "tick")
    /\ last'.op = "resolve" =>
          \A id \in DOMAIN rooms :
             rooms'[id] # rooms[id] => OneResolution(rooms[id], rooms'[id], last'.out)
    /\ last'.op = "resolve_detached" =>
          \A i \in DOMAIN detached :
             ResolveDetached(i, last'.orphan[1].lastResult[1].number)
             => OneResolution(detached[i], last'.orphan[1], last'.out)
    /\ last'.op \notin {"resolve", "resolve_detached"} =>
          /\ CountType(last'.out, "spin_result") = 0
          /\ \A id \in DOMAIN rooms \cap DOMAIN rooms' :
                rooms'[id].history = rooms[id].history
C18_OneResolution == [][C18_Step]_vars

C18_Witness ==
    /\ last.op = "resolve"
    /\ "lobby" \in DOMAIN rooms
    /\ Len(rooms["lobby"].history) = 1
    /\ rooms["lobby"].round = 2
    /\ RosterSize(rooms["lobby"]) = 2
    /\ last.settled # {}
    /\ CountType(last.out, "spin_result") = 1

\* C19: a connection is in the roster of one room at most, the room it is
\* in being its current room, and a closed connection is in no roster; so
\* every roster entry belongs to an open connection whose room is that room.
C19_Claim ==
    /\ \A ws \in DOMAIN conns :
          Cardinality({id \in DOMAIN rooms : ws \in DOMAIN rooms[id].players}) <= 1
    /\ \A id \in DOMAIN rooms : \A ws \in DOMAIN rooms[id].players :
          conns[ws].roomId = id /\ conns[ws].state = "open"

\* C20: the balance of a player in a roster changes only in a successful
\* placeBet, which lowers it, and in a resolution, which raises it; a join,
\* a further join of the same connection included, changes no balance of a
\* player already in the roster.
C20_Step ==
    \A id \in DOMAIN rooms \cap DOMAIN rooms' :
        \A ws \in DOMAIN rooms[id].players \cap DOMAIN rooms'[id].players :
            LET a == rooms[id].players[ws].chips
                b == rooms'[id].players[ws].chips
            IN a # b =>
                 \/ last'.op = "place_bet" /\ last'.reply = "ok" /\ JsLt(b, a)
                 \/ last'.op = "resolve" /\ JsLt(a, b)
C20_Claim == [][C20_Step]_vars

====
